---- MODULE Spec2Model ----
(***************************************************************************)
(* Model of src/app.py, the Streamlit record viewer of pepeto/mapaMX.       *)
(*                                                                          *)
(* One run of the script is a render pass.  Streamlit re-runs the script    *)
(* from the top after every interaction with a widget (the file uploader    *)
(* or the record number input).  The pass is cut into the steps at which    *)
(* the script can stop: load data, validate columns, normalise, main UI     *)
(* (count, caption, number input, row lookup), coordinate check, map.       *)
(*                                                                          *)
(* Text is a sequence of one-character strings.  A float is a record        *)
(* [isnan, val]; val counts units of 1 / (2 * 10^Prec), so that every       *)
(* decimal with at most Prec fractional digits and every midpoint of two    *)
(* of them is an integer number of units.                                   *)
(***************************************************************************)
EXTENDS Integers, Sequences, FiniteSets, TLC

\* ------------------------------------------------------------ bounds
\* Longest text the exhaustive normaliser inputs have.
MaxLen == 3
\* Most rows of the tables built from the small row pool.
MaxRows == 2

\* ------------------------------------------------------------ text
Digits == {"0", "1", "2", "3", "4", "5", "6", "7", "8", "9"}

\* Python's str.isspace() characters that occur in the inputs.
Whitespace == {" ", "TAB"}

LowerLetters == <<"a", "b", "c", "d", "e", "f", "g", "h", "i", "j", "k", "l", "m",
                  "n", "o", "p", "q", "r", "s", "t", "u", "v", "w", "x", "y", "z">>

UpperLetters == <<"A", "B", "C", "D", "E", "F", "G", "H", "I", "J", "K", "L", "M",
                  "N", "O", "P", "Q", "R", "S", "T", "U", "V", "W", "X", "Y", "Z">>

\* str.upper() on one character.
UpperChar(c) ==
    IF \E i \in 1..Len(LowerLetters) : LowerLetters[i] = c
    THEN UpperLetters[CHOOSE i \in 1..Len(LowerLetters) : LowerLetters[i] = c]
    ELSE c

\* str.upper()
upper(t) == [i \in 1..Len(t) |-> UpperChar(t[i])]

\* Series.str.strip(): drop leading and trailing whitespace.
RECURSIVE lstrip(_)
lstrip(t) == IF t # <<>> /\ Head(t) \in Whitespace THEN lstrip(Tail(t)) ELSE t

RECURSIVE rstrip(_)
rstrip(t) ==
    IF t # <<>> /\ t[Len(t)] \in Whitespace THEN rstrip(SubSeq(t, 1, Len(t) - 1)) ELSE t

strip(t) == rstrip(lstrip(t))

\* Series.str.replace(old, new, regex=False) for a one-character old; new is a text.
RECURSIVE replace(_, _, _)
replace(t, old, new) ==
    IF t = <<>> THEN <<>>
    ELSE (IF Head(t) = old THEN new ELSE <<Head(t)>>) \o replace(Tail(t), old, new)

\* ------------------------------------------------------------ floats
Prec == MaxLen

RECURSIVE Pow10(_)
Pow10(n) == IF n = 0 THEN 1 ELSE 10 * Pow10(n - 1)

\* One unit of val is 1 / Unit.
Unit == 2 * Pow10(Prec)

NaN == [isnan |-> TRUE, val |-> 0]

Num(v) == [isnan |-> FALSE, val |-> v]

\* The float of an integer literal.
FromInt(n) == Num(n * Unit)

\* pd.isna / pd.notna on a scalar.
isna(x) == x.isnan

notna(x) == ~x.isnan

\* Python float comparison: any comparison with NaN is False.
FLess(a, b) == ~a.isnan /\ ~b.isnan /\ a.val < b.val

FGreater(a, b) == ~a.isnan /\ ~b.isnan /\ a.val > b.val

\* (a + b) / 2.0
Midpoint(a, b) == IF a.isnan \/ b.isnan THEN NaN ELSE Num((a.val + b.val) \div 2)

DigitValue(c) == CHOOSE n \in 0..9 : ToString(n) = c

RECURSIVE DigitsValue(_)
DigitsValue(t) ==
    IF t = <<>> THEN 0 ELSE 10 * DigitsValue(SubSeq(t, 1, Len(t) - 1)) + DigitValue(t[Len(t)])

\* pd.to_numeric(text, errors="coerce") on one element: an optional sign, digits
\* with at most one decimal point and at least one digit; anything else is NaN.
to_numeric(t) ==
    LET neg == t # <<>> /\ Head(t) = "-"
        body == IF neg THEN Tail(t) ELSE t
        dots == {i \in 1..Len(body) : body[i] = "."}
        wellformed == /\ \A i \in 1..Len(body) : body[i] \in Digits \cup {"."}
                      /\ \E i \in 1..Len(body) : body[i] \in Digits
                      /\ Cardinality(dots) <= 1
        dot == IF dots = {} THEN Len(body) + 1 ELSE CHOOSE i \in dots : TRUE
        whole == SubSeq(body, 1, dot - 1)
        frac == SubSeq(body, dot + 1, Len(body))
        magnitude == DigitsValue(whole) * Unit
                     + DigitsValue(frac) * (Unit \div Pow10(Len(frac)))
    IN  IF ~wellformed THEN NaN
        ELSE Num(IF neg THEN 0 - magnitude ELSE magnitude)

\* to_float_series on one element of the series.  astype(str) is the identity
\* on a text cell; a cell read_csv found empty is NaN and becomes the text "nan"
\* (see read_csv_cell).
to_float_no_comma(t) == to_numeric(replace(strip(t), " ", <<>>))

to_float_series(t) ==
    to_numeric(replace(replace(strip(t), " ", <<>>), ",", <<".">>))

\* ------------------------------------------------------------ tables
required_columns ==
    <<"PP_latitud", "PP_longitud", "lat", "lng", "PP_method", "score", "PP_diferencia">>

RequiredSet == {required_columns[i] : i \in 1..Len(required_columns)}

\* The columns lines 90-95 normalise (PP_method is left as read).
NumericColumns == RequiredSet \ {"PP_method"}

\* pd.read_csv on one cell: an empty cell is NaN, whose str() is "nan".
read_csv_cell(t) == IF t = <<>> THEN <<"n", "a", "n">> ELSE t

\* Cell texts of the row pools.
CoordTexts == {<<>>, <<"4", "0", ",", "5">>}

GeoLatTexts == {<<"a", "b", "c">>, <<" ", "-", "3", ".", "1", " ">>}

GeoLngTexts == {<<>>, <<"7">>}

MethodTexts == {<<"E", "X", "A", "C", "T">>, <<"e", "x", "a", "c", "t">>,
                <<"i", "n", "t", "e", "r", "p", "o", "l", "a", "t", "e", "d">>, <<>>}

DiffTexts == {<<"5", "0">>, <<"1", "0", "0">>, <<"x">>}

ScoreTexts == {<<"0", ",", "8">>, <<"0", ".", "5">>, <<"0", ".", "4">>, <<>>}

MakeRow(plat, plng, glat, glng, m, s, d) ==
    [PP_latitud |-> plat, PP_longitud |-> plng, lat |-> glat, lng |-> glng,
     PP_method |-> m, score |-> s, PP_diferencia |-> d]

\* Every combination of the cell texts: the rows of the one-row tables.
FullRows ==
    {MakeRow(plat, plng, glat, glng, m, s, d) :
        plat \in CoordTexts, plng \in CoordTexts, glat \in GeoLatTexts,
        glng \in GeoLngTexts, m \in MethodTexts, s \in ScoreTexts, d \in DiffTexts}

\* The rows of the longer tables.
SmallRows ==
    {MakeRow(<<"4", "0", ",", "5">>, <<"4", "0", ",", "5">>,
             <<" ", "-", "3", ".", "1", " ">>, <<"7">>,
             <<"e", "x", "a", "c", "t">>, <<"0", ",", "8">>, <<"5", "0">>),
     MakeRow(<<>>, <<"4", "0", ",", "5">>, <<"a", "b", "c">>, <<"7">>,
             <<>>, <<>>, <<"x">>),
     MakeRow(<<"4", "0", ",", "5">>, <<"4", "0", ",", "5">>,
             <<" ", "-", "3", ".", "1", " ">>, <<"7">>,
             <<"i", "n", "t", "e", "r", "p", "o", "l", "a", "t", "e", "d">>,
             <<"0", ".", "4">>, <<"1", "0", "0">>)}

RECURSIVE SeqsUpTo(_, _)
SeqsUpTo(S, n) ==
    IF n = 0 THEN {<<>>}
    ELSE LET shorter == SeqsUpTo(S, n - 1)
         IN  shorter \cup {Append(q, x) : q \in {r \in shorter : Len(r) = n - 1}, x \in S}

Csv(cols, rows) == [present |-> TRUE, columns |-> cols, rows |-> rows]

\* No uploaded file (uploaded_file is None) / no file at default_path.
NoFile == [present |-> FALSE, columns |-> {}, rows |-> <<>>]

\* A row of the default file and of the sources lacking columns.
DefaultRow ==
    MakeRow(<<"4", "0", ",", "5">>, <<>>, <<"7">>, <<" ", "-", "3", ".", "1", " ">>,
            <<"E", "X", "A", "C", "T">>, <<"0", ".", "5">>, <<"5", "0">>)

\* CSV sources with every required column.
FullCsvFiles ==
    {Csv(RequiredSet, <<r>>) : r \in FullRows}
    \cup {Csv(RequiredSet, rows) : rows \in SeqsUpTo(SmallRows, MaxRows)}

\* CSV sources lacking some required column.
PartialCsvFiles ==
    {Csv(cols, rows) : cols \in (SUBSET RequiredSet) \ {RequiredSet},
                       rows \in SeqsUpTo({DefaultRow}, 1)}

CsvFiles == FullCsvFiles \cup PartialCsvFiles

\* What may lie at default_path ("direcciones_X.csv").
DefaultFiles ==
    {NoFile} \cup {Csv(RequiredSet, rows) : rows \in SeqsUpTo({DefaultRow}, MaxRows)}

\* The table: its columns, its index (the record_id of each row position) and
\* its rows, each a function from the column names to the cell.
EmptyDf == [columns |-> {}, index |-> <<>>, rows |-> <<>>]

\* reset_index(drop=True) gives position p (counted from 1 here) the label p - 1.
RangeIndex(n) == [p \in 1..n |-> p - 1]

load_dataframe_zero_based(csv) ==
    [columns |-> csv.columns,
     index |-> RangeIndex(Len(csv.rows)),
     rows |-> [p \in 1..Len(csv.rows) |->
                  [c \in csv.columns |-> read_csv_cell(csv.rows[p][c])]]]

\* load_dataframe, and the same four lines inlined for an uploaded file.
load_dataframe(csv) ==
    [columns |-> csv.columns,
     index |-> [p \in 1..Len(csv.rows) |-> RangeIndex(Len(csv.rows))[p] + 1],
     rows |-> [p \in 1..Len(csv.rows) |->
                  [c \in csv.columns |-> read_csv_cell(csv.rows[p][c])]]]

validate_required_columns_present(d, required_cols) ==
    SelectSeq(required_cols, LAMBDA c : c \in d.columns)

\* [c for c in required_cols if c not in df.columns]
validate_required_columns(d, required_cols) ==
    SelectSeq(required_cols, LAMBDA c : c \notin d.columns)

\* Lines 89-95: the six numeric columns through to_float_series.
normalize_row(r) ==
    [c \in DOMAIN r |-> IF c \in NumericColumns THEN to_float_series(r[c]) ELSE r[c]]

normalize(d) == [d EXCEPT !.rows = [p \in 1..Len(d.rows) |-> normalize_row(d.rows[p])]]

\* df.index.max(): NaN on an empty index.
HasRows(d) == Len(d.index) > 0

index_max(d) == CHOOSE m \in {d.index[p] : p \in 1..Len(d.index)} :
                    \A p \in 1..Len(d.index) : d.index[p] <= m

\* df.loc[id]: the row labelled id (KeyError when there is none).
HasLabel(d, id) == \E p \in 1..Len(d.index) : d.index[p] = id

loc(d, id) == d.rows[CHOOSE p \in 1..Len(d.index) : d.index[p] = id]

\* ------------------------------------------------------------ marker policy
DifferenceThreshold == 100

\* 0.5 in tenths.
ScoreThresholdTenths == 5

zoom_start == 15

ScoreThreshold == Num((ScoreThresholdTenths * Unit) \div 10)

\* The text "EXACT".
EXACT == <<"E", "X", "A", "C", "T">>

geo_missing_both(r) == isna(r["lat"]) /\ isna(r["lng"])

\* Line 120: pd.isna(geo_latitude) or pd.isna(geo_longitude)
geo_missing(r) == isna(r["lat"]) \/ isna(r["lng"])

\* Line 128
pp_valid(r) == notna(r["PP_latitud"]) /\ notna(r["PP_longitud"])

pp_condition_no_threshold(r) == upper(r["PP_method"]) = EXACT

\* Line 141; str() of a text cell is the cell, float() of a float is the float.
pp_condition(r) ==
    /\ upper(r["PP_method"]) = EXACT
    /\ FLess(r["PP_diferencia"], FromInt(DifferenceThreshold))

geo_color_at_least(r) ==
    IF notna(r["score"]) /\ r["score"].val >= ScoreThreshold.val THEN "green" ELSE "gray"

\* Line 142
geo_color(r) == IF FGreater(r["score"], ScoreThreshold) THEN "green" ELSE "gray"

center_when_marker_shown(r) ==
    IF pp_valid(r) /\ pp_condition(r)
    THEN <<Midpoint(r["PP_latitud"], r["lat"]), Midpoint(r["PP_longitud"], r["lng"])>>
    ELSE <<r["lat"], r["lng"]>>

\* Lines 131-136: <<center_latitude, center_longitude>>
center(r) ==
    IF pp_valid(r)
    THEN <<Midpoint(r["PP_latitud"], r["lat"]), Midpoint(r["PP_longitud"], r["lng"])>>
    ELSE <<r["lat"], r["lng"]>>

NoMap == [shown |-> FALSE, location |-> <<NaN, NaN>>, zoom |-> 0, marker1 |-> "none",
          marker2 |-> "none", line |-> FALSE, fit_bounds |-> FALSE]

\* Lines 138-171: the map, its markers, the line and the bounds fit.
folium_map(r) ==
    [shown |-> TRUE,
     location |-> center(r),
     zoom |-> zoom_start,
     marker1 |-> geo_color(r),
     marker2 |-> IF pp_valid(r) /\ pp_condition(r) THEN "green" ELSE "none",
     line |-> pp_valid(r) /\ pp_condition(r),
     fit_bounds |-> pp_valid(r) /\ pp_condition(r)]

\* ------------------------------------------------------------ state
VARIABLES
    uploaded_file,       \* the file uploader's value: NoFile or a CSV
    default_file,        \* what lies at default_path: NoFile or a CSV
    df,                  \* the script's table
    missing_columns,     \* line 84
    total_records,       \* line 101 (0 before it runs)
    selected_record_id,  \* line 104 (0 before it runs)
    row,                 \* line 112 (<<>> before it runs)
    widget,              \* the number input kept by the session: its max_value,
                         \* its value, and whether the user has set the value
    page,                \* what the pass has put on the page
    pc                   \* where the pass is

vars == <<uploaded_file, default_file, df, missing_columns, total_records,
          selected_record_id, row, widget, page, pc>>

\* No number input on the page.
NoWidget == [max |-> 0, value |-> 0, touched |-> FALSE]

BlankPage == [outcome |-> "none", error_columns |-> <<>>, caption |-> 0,
              range_label |-> 0, row_shown |-> FALSE, map |-> NoMap]

\* The script's own variables at the start of a pass.
FreshRun ==
    /\ df' = EmptyDf
    /\ missing_columns' = <<>>
    /\ total_records' = 0
    /\ selected_record_id' = 0
    /\ row' = <<>>
    /\ page' = BlankPage
    /\ pc' = "load"

Init ==
    /\ uploaded_file = NoFile
    /\ default_file \in DefaultFiles
    /\ df = EmptyDf
    /\ missing_columns = <<>>
    /\ total_records = 0
    /\ selected_record_id = 0
    /\ row = <<>>
    /\ widget = NoWidget
    /\ page = BlankPage
    /\ pc = "load"

\* ------------------------------------------------------------ the script
\* Lines 72-81.  st.stop() ends the pass; a widget the pass did not reach is
\* dropped from the session.
LoadData ==
    /\ pc = "load"
    /\ IF uploaded_file.present
       THEN /\ df' = load_dataframe(uploaded_file)
            /\ pc' = "validate"
            /\ UNCHANGED <<page, widget>>
       ELSE IF default_file.present
       THEN /\ df' = load_dataframe(default_file)
            /\ pc' = "validate"
            /\ UNCHANGED <<page, widget>>
       ELSE /\ page' = [page EXCEPT !.outcome = "SourceUnavailable"]
            /\ pc' = "stop"
            /\ widget' = NoWidget
            /\ UNCHANGED df
    /\ UNCHANGED <<uploaded_file, default_file, missing_columns, total_records,
                   selected_record_id, row>>

\* Lines 83-87.
ValidateColumns ==
    /\ pc = "validate"
    /\ missing_columns' = validate_required_columns(df, required_columns)
    /\ IF Len(missing_columns') > 0
       THEN /\ page' = [page EXCEPT !.outcome = "SchemaInvalid",
                                    !.error_columns = missing_columns']
            /\ pc' = "stop"
            /\ widget' = NoWidget
       ELSE /\ pc' = "normalize"
            /\ UNCHANGED <<page, widget>>
    /\ UNCHANGED <<uploaded_file, default_file, df, total_records, selected_record_id, row>>

\* Lines 89-95.
Normalize ==
    /\ pc = "normalize"
    /\ df' = normalize(df)
    /\ pc' = "main"
    /\ UNCHANGED <<uploaded_file, default_file, missing_columns, total_records,
                   selected_record_id, row, widget, page>>

\* Lines 101-112.  int() of the NaN that max() of an empty index gives raises
\* ValueError, and df.loc raises KeyError for a label the index lacks; the
\* script catches neither.  The number input is keyed by its label and limits:
\* with the same total_records the session's value is kept, otherwise the
\* input is new and holds value=1.
MainUI ==
    /\ pc = "main"
    /\ IF ~HasRows(df)
       THEN /\ page' = [page EXCEPT !.outcome = "Exception"]
            /\ pc' = "stop"
            /\ widget' = NoWidget
            /\ UNCHANGED <<total_records, selected_record_id, row>>
       ELSE /\ total_records' = index_max(df)
            /\ widget' = IF widget.max = total_records' THEN widget
                         ELSE [max |-> total_records', value |-> 1, touched |-> FALSE]
            /\ selected_record_id' = widget'.value
            /\ IF HasLabel(df, selected_record_id')
               THEN /\ row' = loc(df, selected_record_id')
                    /\ page' = [page EXCEPT !.caption = total_records' + 1,
                                            !.range_label = total_records' + 1]
                    /\ pc' = "check"
               ELSE /\ page' = [page EXCEPT !.outcome = "Exception",
                                            !.caption = total_records' + 1,
                                            !.range_label = total_records' + 1]
                    /\ pc' = "stop"
                    /\ UNCHANGED row
    /\ UNCHANGED <<uploaded_file, default_file, df, missing_columns>>

\* Lines 114-123.
CheckCoordinates ==
    /\ pc = "check"
    /\ IF geo_missing(row)
       THEN /\ page' = [page EXCEPT !.outcome = "CoordinateMissing", !.row_shown = TRUE]
            /\ pc' = "stop"
       ELSE /\ pc' = "map"
            /\ UNCHANGED page
    /\ UNCHANGED <<uploaded_file, default_file, df, missing_columns, total_records,
                   selected_record_id, row, widget>>

\* Lines 127-176.
BuildMap ==
    /\ pc = "map"
    /\ page' = [page EXCEPT !.outcome = "Rendered", !.map = folium_map(row),
                            !.row_shown = TRUE]
    /\ pc' = "stop"
    /\ UNCHANGED <<uploaded_file, default_file, df, missing_columns, total_records,
                   selected_record_id, row, widget>>

\* ------------------------------------------------------------ the user
\* Lines 62-65: a file is put in the uploader; the script runs again.
UploadFile ==
    /\ pc = "stop"
    /\ \E f \in CsvFiles :
          /\ f # uploaded_file
          /\ uploaded_file' = f
    /\ FreshRun
    /\ UNCHANGED <<default_file, widget>>

\* The uploaded file is removed from the uploader.
ClearUpload ==
    /\ pc = "stop"
    /\ uploaded_file.present
    /\ uploaded_file' = NoFile
    /\ FreshRun
    /\ UNCHANGED <<default_file, widget>>

\* Lines 104-110: the number input takes min_value..max_value only.
SelectRecord ==
    /\ pc = "stop"
    /\ \E k \in 1..widget.max :
          /\ k # widget.value
          /\ widget' = [widget EXCEPT !.value = k, !.touched = TRUE]
    /\ FreshRun
    /\ UNCHANGED <<uploaded_file, default_file>>

Next ==
    \/ LoadData
    \/ ValidateColumns
    \/ Normalize
    \/ MainUI
    \/ CheckCoordinates
    \/ BuildMap
    \/ UploadFile
    \/ ClearUpload
    \/ SelectRecord

Spec == Init /\ [][Next]_vars

\* ------------------------------------------------------------ one pass over one cell
\* The characters of the exhaustive normaliser inputs.
NormAlphabet == {"4", "5", " ", "TAB", ",", ".", "-", "a"}

NormInputs ==
    SeqsUpTo(NormAlphabet, MaxLen)
    \cup {<<"4", "0", ",", "5">>, <<" ", " ", "-", "3", ".", "1", " ">>, <<"a", "b", "c">>}

\* A row whose cells all normalise to numbers.
NormRow ==
    MakeRow(<<"1">>, <<"2">>, <<"3">>, <<"4">>, <<"E", "x", "a", "c", "t">>,
            <<"0", ".", "9">>, <<"9", "9">>)

\* A pass over an uploaded one-row table, one numeric cell of which holds any
\* of the inputs.
InitNorm ==
    /\ \E c \in NumericColumns, t \in NormInputs :
          uploaded_file = Csv(RequiredSet, <<[NormRow EXCEPT ![c] = t]>>)
    /\ default_file = NoFile
    /\ df = EmptyDf
    /\ missing_columns = <<>>
    /\ total_records = 0
    /\ selected_record_id = 0
    /\ row = <<>>
    /\ widget = NoWidget
    /\ page = BlankPage
    /\ pc = "load"

NextNorm ==
    \/ LoadData
    \/ ValidateColumns
    \/ Normalize
    \/ MainUI
    \/ CheckCoordinates
    \/ BuildMap

SpecNorm == InitNorm /\ [][NextNorm]_vars

\* ------------------------------------------------------------ properties
\* The source the pass reads: the uploaded file if there is one.
Source == IF uploaded_file.present THEN uploaded_file ELSE default_file

\* The pass has looked a record up.
RowSelected == pc \in {"check", "map", "stop"} /\ selected_record_id > 0

MapShown == pc = "stop" /\ page.map.shown

\* t is "EXACT" up to the case of its letters.
IsExactIgnoringCase(t) ==
    /\ Len(t) = 5
    /\ t[1] \in {"E", "e"}
    /\ t[2] \in {"X", "x"}
    /\ t[3] \in {"A", "a"}
    /\ t[4] \in {"C", "c"}
    /\ t[5] \in {"T", "t"}

ReferenceUsable == ~row["PP_latitud"].isnan /\ ~row["PP_longitud"].isnan

ReferencePlaced == page.map.marker2 # "none"

\* C1: on every map, the reference marker (number 2) is placed exactly when
\* both reference coordinates are non-missing, the method is "EXACT" up to
\* case and the difference is a number below 100; the line and the bounds fit
\* are there exactly when the marker is.
C1_ReferenceMarkerPolicy ==
    MapShown =>
        /\ ReferencePlaced <=>
              /\ ReferenceUsable
              /\ IsExactIgnoringCase(row["PP_method"])
              /\ ~row["PP_diferencia"].isnan
              /\ row["PP_diferencia"].val < DifferenceThreshold * Unit
        /\ page.map.line <=> ReferencePlaced
        /\ page.map.fit_bounds <=> ReferencePlaced

C1_Witness ==
    /\ MapShown
    /\ ReferencePlaced
    /\ row["PP_method"] = <<"e", "x", "a", "c", "t">>
    /\ page.map.line
    /\ page.map.fit_bounds

\* C2 (as claimed): with a method other than "EXACT" and both points present,
\* the reference marker is suppressed, the map is centred exactly on the
\* geocoded point, and there is no line and no bounds fit.
C2_NonExactCentresOnGeocoded ==
    (MapShown /\ ReferenceUsable /\ ~IsExactIgnoringCase(row["PP_method"])) =>
        /\ ~ReferencePlaced
        /\ page.map.location = <<row["lat"], row["lng"]>>
        /\ ~page.map.line
        /\ ~page.map.fit_bounds

C4_GeocodedColour ==
    MapShown =>
        page.map.marker1 =
            IF ~row["score"].isnan /\ 10 * row["score"].val > ScoreThresholdTenths * Unit
            THEN "green" ELSE "gray"

C4_Witness ==
    /\ MapShown
    /\ ReferencePlaced
    /\ ~row["score"].isnan
    /\ 10 * row["score"].val = ScoreThresholdTenths * Unit
    /\ page.map.marker1 = "gray"

\* C5: a pass that selected a record ends with a map exactly when the record's
\* normalised geocoded latitude and longitude are both non-missing; otherwise
\* it ends with the CoordinateMissing warning, the raw row and no map or
\* marker; a map always carries the geocoded marker (number 1).
C5_MapIffGeocodedPresent ==
    (pc = "stop" /\ RowSelected) =>
        LET present == ~row["lat"].isnan /\ ~row["lng"].isnan
        IN  /\ page.map.shown <=> present
            /\ ~present => /\ page.outcome = "CoordinateMissing"
                           /\ page.row_shown
                           /\ page.map = NoMap
            /\ present => /\ page.outcome = "Rendered"
                          /\ page.row_shown
                          /\ page.map.marker1 \in {"green", "gray"}

C5_Witness ==
    /\ pc = "stop"
    /\ RowSelected
    /\ row["lat"].isnan
    /\ ~row["lng"].isnan
    /\ page.outcome = "CoordinateMissing"
    /\ page.row_shown
    /\ ~page.map.shown

\* Position of a column in the declared required order.
RequiredPosition(c) == CHOOSE i \in 1..Len(required_columns) : required_columns[i] = c

\* The pass has loaded a table and run the validator on it.
Validated == Source.present /\ pc \notin {"load", "validate"}

\* C6: the validator's list holds exactly the required columns the table
\* lacks, each once, in the declared order; while it is non-empty the pass has
\* stopped with the SchemaInvalid error naming those columns, and nothing of
\* the later steps (count, selection, row, row display, map) has happened.
C6_MissingColumnsBlock ==
    /\ Validated =>
          /\ {missing_columns[i] : i \in 1..Len(missing_columns)}
                = RequiredSet \ Source.columns
          /\ \A i, j \in 1..Len(missing_columns) :
                i < j => RequiredPosition(missing_columns[i])
                            < RequiredPosition(missing_columns[j])
    /\ (Validated /\ RequiredSet \ Source.columns # {}) =>
          /\ Len(missing_columns) > 0
          /\ pc = "stop"
          /\ page.outcome = "SchemaInvalid"
          /\ page.error_columns = missing_columns
          /\ total_records = 0
          /\ selected_record_id = 0
          /\ widget = NoWidget
          /\ ~page.row_shown
          /\ page.map = NoMap

C6_Witness ==
    /\ pc = "stop"
    /\ missing_columns = <<"lat", "score">>
    /\ page.outcome = "SchemaInvalid"
    /\ Len(Source.rows) > 0

\* C7 (as claimed): every pass ends in one of the four outcomes, never in an
\* uncaught exception.
C7_PassEndsInOneOfFourOutcomes ==
    pc = "stop" =>
        page.outcome \in {"SourceUnavailable", "SchemaInvalid", "CoordinateMissing",
                          "Rendered"}

\* C8: once loaded, the identifiers are 1..n in source order (n the number of
\* rows of the source); the number input holds 1 until the user sets it and
\* only ever a value in 1..n, and the row looked up is the row at that place
\* of the source.
C8_Identifiers ==
    /\ pc # "load" =>
          /\ df.index = [p \in 1..Len(Source.rows) |-> p]
          /\ Len(df.rows) = Len(Source.rows)
    /\ (widget.max > 0 /\ ~widget.touched) => widget.value = 1
    /\ RowSelected =>
          /\ page.outcome # "Exception"
          /\ selected_record_id \in 1..Len(Source.rows)
          /\ selected_record_id = widget.value
          /\ widget.max = Len(Source.rows)
          /\ row = df.rows[selected_record_id]
          /\ row["PP_method"]
                = read_csv_cell(Source.rows[selected_record_id]["PP_method"])

C8_Witness ==
    /\ pc = "stop"
    /\ RowSelected
    /\ selected_record_id = 2
    /\ Len(Source.rows) = 2
    /\ Source.rows[1]["PP_method"] # Source.rows[2]["PP_method"]
    /\ row["PP_method"] = read_csv_cell(Source.rows[2]["PP_method"])

\* C9 (as claimed): the count shown, the upper end of the range the label
\* advertises and the largest identifier the number input takes are all n,
\* the number of rows of the table.
C9_CountShownIsRowCount ==
    RowSelected =>
        /\ total_records = Len(Source.rows)
        /\ widget.max = Len(Source.rows)
        /\ page.caption = Len(Source.rows)
        /\ page.range_label = Len(Source.rows)

\* t with a space put in after its first i characters.
WithSpaceAt(t, i) == SubSeq(t, 1, i) \o <<" ">> \o SubSeq(t, i + 1, Len(t))

\* t with its commas turned into points.
WithPoints(t) == [i \in 1..Len(t) |-> IF t[i] = "," THEN "." ELSE t[i]]

\* C10: every normalised cell is a number or missing; "40,5" gives 40.5,
\* "  -3.1 " gives -3.1, and "", "abc" and an absent cell give missing; a space
\* anywhere, whitespace around the text and a comma in place of the point do
\* not change the result; a text of digits is its number; and all six
\* numeric columns are treated alike.
C10_Normaliser ==
    pc \notin {"load", "validate", "normalize"} =>
        \A c \in NumericColumns :
            LET raw == Source.rows[1][c]
                out == df.rows[1][c]
            IN  /\ out.isnan \in BOOLEAN
                /\ out.val \in Int
                /\ out.isnan => out.val = 0
                /\ raw = <<"4", "0", ",", "5">> => out = Num(405 * (Unit \div 10))
                /\ raw = <<" ", " ", "-", "3", ".", "1", " ">>
                      => out = Num((0 - 31) * (Unit \div 10))
                /\ raw \in {<<>>, <<"a", "b", "c">>, <<"n", "a", "n">>} => out = NaN
                /\ raw \in {<<"4">>, <<"4", ".">>, <<"4", ".", "0">>} => out = Num(4 * Unit)
                /\ raw = <<"-", ",", "5">> => out = Num((0 - 5) * (Unit \div 10))
                /\ (\E i \in 1..Len(raw) : raw[i] \notin Digits \cup Whitespace \cup {",", ".", "-"})
                      => out = NaN
                /\ \A i \in 0..Len(raw) : to_float_series(WithSpaceAt(raw, i)) = out
                /\ to_float_series(<<"TAB">> \o raw \o <<"TAB">>) = out
                /\ to_float_series(WithPoints(raw)) = out

C10_Witness ==
    /\ pc = "stop"
    /\ Source.rows[1]["PP_diferencia"] = <<"4", "0", ",", "5">>
    /\ df.rows[1]["PP_diferencia"] = Num(405 * (Unit \div 10))
    /\ page.outcome = "Rendered"

====
